---- MODULE Spec2Model ----
(***************************************************************************)
(* Model of the SQLite-backed cache (src/src/cache.ts) and of the docs.rs  *)
(* fetcher that feeds it (src/src/docs-fetcher.ts).                        *)
(*                                                                         *)
(* Spec         the store used directly: get, set, delete, clear, query,   *)
(*              listEntries, getStats and the passage of time.             *)
(* FetcherSpec  one fetcher instance owning one store: concurrent          *)
(*              fetchCrateJson calls, clearCache, getCacheStats,           *)
(*              getCacheEntries and queryCacheDb.                          *)
(* KeySpec      buildJsonUrl on its own, applied to two argument tuples.   *)
(* FaultSpec    FetcherSpec over a storage engine that may fail in the     *)
(*              lookup and in the write of a fetch.                        *)
(* PersistSpec  a store that is closed and created again on the same path, *)
(*              possibly with another maxSize.                             *)
(* OneCallSpec  one fetchCrateJson call, with every content-encoding       *)
(*              header value and every body.                               *)
(* UseSpec      the store with the time of the last set or hit of every    *)
(*              entry recorded beside it.                                  *)
(* The storage engine is assumed not to fail outside FaultSpec.            *)
(***************************************************************************)
EXTENDS Integers, Sequences, FiniteSets, TLC

VARIABLES
    rows,        \* the cache table: a set of rows [key, data, timestamp, ttl]
    now,         \* Date.now()
    last,        \* the last operation that ran and what it returned
    calls,       \* the fetchCrateJson invocations of the fetcher
    latest,      \* per key, the value of the most recent set of that key
    fetched,     \* per url held by the cache, the payload last downloaded
    db,          \* the store instance in use: its database and its maxSize
    used         \* per key held by the store, when it was last set or read

vars == <<rows, now, last, calls, latest, fetched, db, used>>

----------------------------------------------------------------------------
(* Bounds of the model *)

\* the clock runs from 0 to MaxTime
MaxTime == 2
\* the maxSize argument of createCache
maxSize == 2
\* the store instances created one after the other on one path
MaxInstances == 2

\* keys, ttls and values handed to the store when it is used directly
Keys == {"key1", "key2", "key3"}
Ttls == {1, 2}

NoKey == "<none>"

----------------------------------------------------------------------------
(* JSON values, JSON.stringify and JSON.parse *)

JNull == [type |-> "null", v |-> ""]
JNum(d) == [type |-> "number", v |-> d]
JStr(s) == [type |-> "string", v |-> s]
JObj(members) == [type |-> "object", v |-> members]

\* the values of the model; an object is named by its members
JsonValues ==
    { JNull, JNum("0"), JNum("1"), JStr("value1"), JStr("value2"),
      JObj("\"root\":1"), JObj("\"root\":2") }

\* the values the store is handed when it is used directly
Values == { JStr("value1"), JStr("value2") }

\* JSON.stringify(value): the text written to the data column
JSONStringify(value) ==
    CASE value.type = "null"   -> "null"
      [] value.type = "number" -> value.v
      [] value.type = "string" -> "\"" \o value.v \o "\""
      [] value.type = "object" -> "{" \o value.v \o "}"

\* JSON.parse(text): ok = FALSE stands for the SyntaxError it throws
JSONParse(text) ==
    IF \E value \in JsonValues : JSONStringify(value) = text
    THEN [ok |-> TRUE,
          value |-> CHOOSE value \in JsonValues : JSONStringify(value) = text]
    ELSE [ok |-> FALSE, value |-> JNull]

\* JavaScript truthiness of a JSON value
Truthy(value) ==
    CASE value.type = "null"   -> FALSE
      [] value.type = "number" -> value.v # "0"
      [] value.type = "string" -> value.v # ""
      [] value.type = "object" -> TRUE

\* typeof value === "object"
TypeofObject(value) == value.type \in {"object", "null"}

----------------------------------------------------------------------------
(* The prepared statements of createCache *)

\* a row of the cache table
Row(key, data, timestamp, ttl) ==
    [key |-> key, data |-> data, timestamp |-> timestamp, ttl |-> ttl]

getStmt_AnyKey(table, key) == table

\* SELECT data, timestamp, ttl FROM cache WHERE key = ?
getStmt(table, key) == { r \in table : r.key = key }

setStmt_KeepFirst(table, key, data, timestamp, ttl) ==
    IF \E r \in table : r.key = key THEN table
    ELSE table \cup { Row(key, data, timestamp, ttl) }

setStmt_NoReplace(table, key, data, timestamp, ttl) ==
    table \cup { Row(key, data, timestamp, ttl) }

\* INSERT OR REPLACE INTO cache (key, data, timestamp, ttl) VALUES (?, ?, ?, ?)
setStmt(table, key, data, timestamp, ttl) ==
    { r \in table : r.key # key } \cup { Row(key, data, timestamp, ttl) }

deleteStmt_All(table, key) == {}

deleteStmt_None(table, key) == table

\* DELETE FROM cache WHERE key = ?
deleteStmt(table, key) == { r \in table : r.key # key }

clearStmt_KeepNewest(table) ==
    { r \in table : \A q \in table : r.timestamp >= q.timestamp }

\* DELETE FROM cache
clearStmt(table) == {}

\* SELECT COUNT(*) as count FROM cache
countStmt(table) == Cardinality(table)

oldestStmt_Any(table) == table

oldestStmt_Newest(table) ==
    { r \in table : \A q \in table : r.timestamp >= q.timestamp }

\* SELECT key FROM cache ORDER BY timestamp ASC LIMIT 1: the rows that may
\* come first (SQL leaves the order of equal timestamps open)
oldestStmt(table) ==
    { r \in table : \A q \in table : r.timestamp <= q.timestamp }

cleanupExpired_Never(table, t) == table

cleanupExpired_AtDeadline(table, t) ==
    { r \in table : ~(r.timestamp + r.ttl <= t) }

\* DELETE FROM cache WHERE timestamp + ttl < ?
cleanupExpired(table, t) == { r \in table : ~(r.timestamp + r.ttl < t) }

isExpired_Never(r, t) == FALSE

isExpired_AtDeadline(r, t) == t >= r.timestamp + r.ttl

\* the per-key check of getWithMetadata: Date.now() > timestamp + ttl
isExpired(r, t) == t > r.timestamp + r.ttl

----------------------------------------------------------------------------
(* What the last operation did; it stays until the caller has taken it *)

NoLast ==
    [op |-> "none", key |-> NoKey, isHit |-> FALSE, data |-> JNull,
     pre |-> {}, present |-> FALSE, evicted |-> NoKey, err |-> "none",
     executed |-> FALSE, sql |-> <<>>, requests |-> 0, writes |-> 0,
     limit |-> 0, offset |-> 0, entries |-> <<>>, result |-> {},
     totalEntries |-> 0, totalSize |-> 0, oldestEntry |-> {},
     cause |-> "none", status |-> 0, info |-> <<>>, args |-> <<>>,
     call |-> 0, keys |-> <<>>]

----------------------------------------------------------------------------
(* SQL text: String.prototype.trim, toUpperCase and startsWith, and what the
   engine does with a statement *)

Whitespace == {" ", "\t", "\n"}

Lower == <<"a","b","c","d","e","f","g","h","i","j","k","l","m",
           "n","o","p","q","r","s","t","u","v","w","x","y","z">>
Upper == <<"A","B","C","D","E","F","G","H","I","J","K","L","M",
           "N","O","P","Q","R","S","T","U","V","W","X","Y","Z">>

UpperOf(ch) ==
    IF \E i \in 1..26 : Lower[i] = ch
    THEN Upper[CHOOSE i \in 1..26 : Lower[i] = ch]
    ELSE ch

\* sql.toUpperCase()
ToUpperCase(s) == [i \in 1..Len(s) |-> UpperOf(s[i])]

RECURSIVE TrimStart(_)
TrimStart(s) ==
    IF s # <<>> /\ Head(s) \in Whitespace THEN TrimStart(Tail(s)) ELSE s

RECURSIVE TrimEnd(_)
TrimEnd(s) ==
    IF s # <<>> /\ s[Len(s)] \in Whitespace
    THEN TrimEnd(SubSeq(s, 1, Len(s) - 1))
    ELSE s

\* sql.trim()
Trim(s) == TrimEnd(TrimStart(s))

\* s.startsWith(prefix)
StartsWith(s, prefix) ==
    Len(s) >= Len(prefix) /\ SubSeq(s, 1, Len(prefix)) = prefix

SELECT == <<"S","E","L","E","C","T">>
DELETE == <<"D","E","L","E","T","E">>
FROMCACHE == <<"F","R","O","M"," ","C","A","C","H","E">>

\* the statements handed to query and queryCacheDb
Statements ==
    { <<"S","E","L","E","C","T"," ","1">>,
      <<"s","e","l","e","c","t"," ","k","e","y"," ","f","r","o","m"," ",
        "c","a","c","h","e">>,
      <<"D","E","L","E","T","E"," ","F","R","O","M"," ","c","a","c","h","e">>,
      <<" "," ","d","e","l","e","t","e"," ","f","r","o","m"," ",
        "c","a","c","h","e">>,
      <<>> }

\* db.prepare(sql).all(): the engine skips leading whitespace and reads its
\* keywords without regard to case; a text holding no statement is an error
SqlVerb(sql) ==
    LET text == ToUpperCase(Trim(sql)) IN
    CASE StartsWith(text, SELECT) -> "select"
      [] StartsWith(text, DELETE) -> "delete"
      [] OTHER -> "error"

\* the table after the engine has run the statement
SqlRun(table, sql) == IF SqlVerb(sql) = "delete" THEN {} ELSE table

\* does the statement name the cache table
ReadsCache(sql) ==
    LET text == ToUpperCase(sql) IN
    \E i \in 1..(Len(text) - Len(FROMCACHE) + 1) :
        SubSeq(text, i, i + Len(FROMCACHE) - 1) = FROMCACHE

\* the rows of the cache table that the statement returns
SqlRows(table, sql) ==
    IF SqlVerb(sql) = "select" /\ ReadsCache(sql) THEN table ELSE {}

----------------------------------------------------------------------------
(* createCache(maxSize): a new in-memory store, and an idle fetcher *)

Calls == {1, 2}

\* a call that has not started: where it stands, its url, its timeout timer,
\* and what it has done so far
NoCall ==
    [pc |-> "idle", url |-> NoKey, timer |-> "none", requests |-> 0,
     writes |-> 0, args |-> <<>>]

\* createCache(size, dbPath): the instance it returns; instance counts the
\* instances created so far, wrote tells whether this one has set an entry
Opened(size, dbPath, instance) ==
    [open |-> TRUE, maxSize |-> size, path |-> dbPath, instance |-> instance,
     wrote |-> FALSE]

Init ==
    /\ rows = {}
    /\ now = 0
    /\ last = NoLast
    /\ calls = [c \in Calls |-> NoCall]
    /\ latest = [key \in {} |-> JNull]
    /\ fetched = [url \in {} |-> JNull]
    /\ db = Opened(maxSize, ":memory:", 1)
    /\ used = [key \in {} |-> 0]

----------------------------------------------------------------------------
(* The operations of the store *)

\* the times Date.now() may return on a later read within one operation
Later == { t \in {now, now + 1} : t <= MaxTime }

getWithMetadata_Touch(table, key, t1, t2) ==
    LET swept == cleanupExpired(table, t1)
        result == getStmt(swept, key)
    IN  IF result = {}
        THEN [rows |-> swept, isHit |-> FALSE, data |-> JNull]
        ELSE LET r == CHOOSE r \in result : TRUE IN
             IF isExpired(r, t2)
             THEN [rows |-> deleteStmt(swept, key), isHit |-> FALSE,
                   data |-> JNull]
             ELSE [rows |-> setStmt(swept, key, r.data, t2, r.ttl),
                   isHit |-> TRUE, data |-> JSONParse(r.data).value]

\* getWithMetadata(key): [rows, isHit, data] for the sweep running at t1 and
\* the per-key check at t2
getWithMetadata(table, key, t1, t2) ==
    LET swept == cleanupExpired(table, t1)
        result == getStmt(swept, key)
    IN  IF result = {}
        THEN [rows |-> swept, isHit |-> FALSE, data |-> JNull]
        ELSE LET r == CHOOSE r \in result : TRUE IN
             IF isExpired(r, t2)
             THEN [rows |-> deleteStmt(swept, key), isHit |-> FALSE,
                   data |-> JNull]
             ELSE [rows |-> swept, isHit |-> TRUE,
                   data |-> JSONParse(r.data).value]

\* the timestamp and ttl of the rows in result
Lifetimes(result) ==
    { [timestamp |-> r.timestamp, ttl |-> r.ttl] : r \in result }

\* no result is waiting to be taken
Ready == last.op = "none"

\* the caller takes the result of the last operation
Return ==
    /\ ~Ready
    /\ last' = NoLast
    /\ UNCHANGED <<rows, now, calls, latest, fetched, db, used>>

\* get(key); what becomes of db and used is said where the action is used
Get(key) ==
    /\ Ready
    /\ \E t2 \in Later :
        LET got == getWithMetadata(rows, key, now, t2) IN
        /\ rows' = got.rows
        /\ now' = t2
        /\ last' = [NoLast EXCEPT !.op = "get", !.key = key,
                       !.isHit = got.isHit, !.data = got.data,
                       !.pre = Lifetimes(getStmt(rows, key))]
        /\ UNCHANGED <<calls, latest, fetched>>

set_EvictWhenOver(table, count) == count > db.maxSize

\* set, lines 93-94: is the store at or above its maximum size
atCapacity(table, count) == count >= db.maxSize

evictions_None(table) == { {} }

\* set, lines 93-100: the rows that the eviction step may delete
evictions(table) ==
    IF atCapacity(table, countStmt(table)) /\ oldestStmt(table) # {}
    THEN { {r} : r \in oldestStmt(table) }
    ELSE { {} }

set_EvictLast(table, gone, key, value, ttl, t) ==
    LET put == setStmt(table, key, JSONStringify(value), t, ttl)
    IN  IF gone = {} THEN put
        ELSE deleteStmt(put, (CHOOSE r \in gone : TRUE).key)

\* set(key, value, ttl) at time t, evicting the rows in gone
set(table, gone, key, value, ttl, t) ==
    LET kept == IF gone = {} THEN table
                ELSE deleteStmt(table, (CHOOSE r \in gone : TRUE).key)
    IN  setStmt(kept, key, JSONStringify(value), t, ttl)

\* the key of the evicted row, if any
Evicted(gone) == IF gone = {} THEN NoKey ELSE (CHOOSE r \in gone : TRUE).key

\* f without the keys in gone
Dropped(f, key) == [k \in DOMAIN f \ {key} |-> f[k]]

\* latest with the value of key replaced
Written(f, key, value) ==
    [k \in DOMAIN f \cup {key} |-> IF k = key THEN value ELSE f[k]]

\* set(key, value, ttl); what becomes of db and used is said where the
\* action is used
Set(key, value, ttl) ==
    /\ Ready
    /\ \E gone \in evictions(rows) :
        /\ rows' = set(rows, gone, key, value, ttl, now)
        /\ last' = [NoLast EXCEPT !.op = "set", !.key = key, !.data = value,
                       !.present = getStmt(rows, key) # {},
                       !.evicted = Evicted(gone)]
        /\ latest' = Written(latest, key, value)
        /\ UNCHANGED <<now, calls, fetched>>

\* delete(key)
remove(key) ==
    /\ Ready
    /\ rows' = deleteStmt(rows, key)
    /\ last' = [NoLast EXCEPT !.op = "delete", !.key = key,
                   !.present = getStmt(rows, key) # {}]
    /\ UNCHANGED <<now, calls, latest, fetched, db, used>>

\* clear()
clear ==
    /\ Ready
    /\ rows' = clearStmt(rows)
    /\ last' = [NoLast EXCEPT !.op = "clear"]
    /\ UNCHANGED <<now, calls, latest, fetched, db, used>>

\* query(sql): [rows, err, executed, result]; whatever the engine throws is
\* wrapped in a CacheError
query(table, sql, t) ==
    LET swept == cleanupExpired(table, t) IN
    IF SqlVerb(sql) = "error"
    THEN [rows |-> swept, err |-> "CacheError", executed |-> FALSE,
          result |-> {}]
    ELSE [rows |-> SqlRun(swept, sql), err |-> "none", executed |-> TRUE,
          result |-> SqlRows(swept, sql)]

Query(sql) ==
    LET res == query(rows, sql, now) IN
    /\ Ready
    /\ rows' = res.rows
    /\ last' = [NoLast EXCEPT !.op = "query", !.sql = sql, !.err = res.err,
                   !.executed = res.executed, !.result = res.result]
    /\ UNCHANGED <<now, calls, latest, fetched, db, used>>

\* LENGTH(data) of the texts the model stores
LENGTH(text) ==
    CASE text \in {"0", "1"} -> 1
      [] text = "null" -> 4
      [] text \in {"\"value1\"", "\"value2\""} -> 8
      [] text \in {"{\"root\":1}", "{\"root\":2}"} -> 10

\* SELECT SUM(LENGTH(data)) as totalSize FROM cache, with NULL read as 0
RECURSIVE totalSize(_)
totalSize(table) ==
    IF table = {} THEN 0
    ELSE LET r == CHOOSE r \in table : TRUE IN
         LENGTH(r.data) + totalSize(table \ {r})

\* SELECT MIN(timestamp) as oldest FROM cache, and
\* oldest ? new Date(oldest) : null; the empty set stands for null
oldestEntry(table) ==
    { r.timestamp : r \in { q \in table :
          /\ \A p \in table : q.timestamp <= p.timestamp
          /\ q.timestamp # 0 } }

\* getStats(): the three aggregates are read from the table as it is
getStats ==
    /\ Ready
    /\ last' = [NoLast EXCEPT !.op = "stats",
                   !.totalEntries = countStmt(rows),
                   !.totalSize = totalSize(rows),
                   !.oldestEntry = oldestEntry(rows)]
    /\ UNCHANGED <<rows, now, calls, latest, fetched, db, used>>

Descending_Ascending(table) ==
    { s \in [1..Cardinality(table) -> table] :
        \A i, j \in 1..Cardinality(table) :
            i < j => (s[i] # s[j] /\ s[i].timestamp <= s[j].timestamp) }

\* ORDER BY timestamp DESC: the orders the engine may return the rows in
\* (SQL leaves the order of equal timestamps open)
Descending(table) ==
    { s \in [1..Cardinality(table) -> table] :
        \A i, j \in 1..Cardinality(table) :
            i < j => (s[i] # s[j] /\ s[i].timestamp >= s[j].timestamp) }

\* LIMIT ? OFFSET ?: a negative limit is no limit
Page(s, limit, offset) ==
    LET end == IF limit < 0 \/ offset + limit > Len(s) THEN Len(s)
               ELSE offset + limit
    IN  SubSeq(s, offset + 1, end)

\* lines 189-195: what listEntries returns for a row
Entry(r) ==
    [key |-> r.key, timestamp |-> r.timestamp, ttl |-> r.ttl,
     expiresAt |-> r.timestamp + r.ttl, size |-> LENGTH(r.data)]

\* the <<limit, offset>> arguments of the model; 100 and 0 are the defaults
Pages == { <<100, 0>>, <<1, 1>> }

\* listEntries(limit, offset)
listEntries(limit, offset) ==
    /\ Ready
    /\ \E order \in Descending(cleanupExpired(rows, now)) :
        LET page == Page(order, limit, offset) IN
        /\ rows' = cleanupExpired(rows, now)
        /\ last' = [NoLast EXCEPT !.op = "list", !.limit = limit,
                       !.offset = offset, !.pre = Lifetimes(rows),
                       !.entries = [i \in 1..Len(page) |-> Entry(page[i])]]
    /\ UNCHANGED <<now, calls, latest, fetched, db, used>>

\* time passes
Tick ==
    /\ Ready
    /\ now < MaxTime
    /\ now' = now + 1
    /\ last' = [NoLast EXCEPT !.op = "tick"]
    /\ UNCHANGED <<rows, calls, latest, fetched, db, used>>

StoreGet == (\E key \in Keys : Get(key)) /\ UNCHANGED <<db, used>>
StoreSet ==
    /\ \E key \in Keys, value \in Values, ttl \in Ttls : Set(key, value, ttl)
    /\ UNCHANGED <<db, used>>
StoreDelete == \E key \in Keys : remove(key)
StoreQuery == \E sql \in Statements : Query(sql)
StoreList == \E page \in Pages : listEntries(page[1], page[2])

Next ==
    \/ StoreGet
    \/ StoreSet
    \/ StoreDelete
    \/ clear
    \/ StoreQuery
    \/ StoreList
    \/ getStats
    \/ Tick
    \/ Return

Spec == Init /\ [][Next]_vars

----------------------------------------------------------------------------
(* The store with the time of the last use of every entry recorded *)

\* the use times f for the keys of table, with key used at time t
Touched(f, table, key, t) ==
    [k \in { r.key : r \in table } |-> IF k = key THEN t ELSE f[k]]

\* get(key): a hit is a use of the entry
UseGet ==
    /\ \E key \in Keys :
          /\ Get(key)
          /\ used' = Touched(used, rows',
                             IF last'.isHit THEN key ELSE NoKey, now')
    /\ UNCHANGED db

\* set(key, value, ttl): the entry written is used at the time of the write
UseSet ==
    /\ \E key \in Keys, value \in Values, ttl \in Ttls :
          /\ Set(key, value, ttl)
          /\ used' = Touched(used, rows', key, now)
    /\ UNCHANGED db

UseNext ==
    \/ UseGet
    \/ UseSet
    \/ Tick
    \/ Return

UseSpec == Init /\ [][UseNext]_vars

----------------------------------------------------------------------------
(* A store that is closed and created again on the same path *)

\* the dbPath arguments of the model, and the maxSize a later instance is
\* given: a smaller one or the same
Paths == {":memory:", "cache.db"}
Sizes == {1, maxSize}

PersistInit ==
    /\ rows = {}
    /\ now = 0
    /\ last = NoLast
    /\ calls = [c \in Calls |-> NoCall]
    /\ latest = [key \in {} |-> JNull]
    /\ fetched = [url \in {} |-> JNull]
    /\ db \in { Opened(maxSize, dbPath, 1) : dbPath \in Paths }
    /\ used = [key \in {} |-> 0]

persisted_Nothing(table, dbPath) == {}

\* new Database(dbPath) and CREATE TABLE IF NOT EXISTS: the table the new
\* instance finds; an in-memory database starts empty
persisted(table, dbPath) == IF dbPath = ":memory:" THEN {} ELSE table

\* close()
close ==
    /\ Ready
    /\ db.open
    /\ db' = [db EXCEPT !.open = FALSE]
    /\ last' = [NoLast EXCEPT !.op = "close"]
    /\ UNCHANGED <<rows, now, calls, latest, fetched, used>>

\* createCache(size, dbPath) on the path of the instance that was closed
createCache(size) ==
    /\ Ready
    /\ ~db.open
    /\ db.instance < MaxInstances
    /\ db' = Opened(size, db.path, db.instance + 1)
    /\ rows' = persisted(rows, db.path)
    /\ latest' = [key \in { r.key : r \in rows' } |-> latest[key]]
    /\ last' = [NoLast EXCEPT !.op = "createCache"]
    /\ UNCHANGED <<now, calls, fetched, used>>

PersistGet ==
    /\ db.open
    /\ \E key \in Keys : Get(key)
    /\ UNCHANGED <<db, used>>

PersistSet ==
    /\ db.open
    /\ \E key \in Keys, value \in Values, ttl \in Ttls : Set(key, value, ttl)
    /\ db' = [db EXCEPT !.wrote = TRUE]
    /\ UNCHANGED used

Reopen == \E size \in Sizes : createCache(size)

PersistNext ==
    \/ PersistGet
    \/ PersistSet
    \/ close
    \/ Reopen
    \/ Tick
    \/ Return

PersistSpec == PersistInit /\ [][PersistNext]_vars

----------------------------------------------------------------------------
(* createDocsFetcher(config): the canonical url and the decoding of a body *)

\* config.cacheTtl
cacheTtl == 1

\* config.requestTimeout || 30000, in milliseconds
timeout == 30000

\* an optional string argument that was not given, and such a number
NoString == ""
NoNumber == 0

buildJsonUrl_TargetLast(crateName, version, target, formatVersion) ==
    "https://docs.rs/crate/" \o crateName \o "/"
        \o (IF version # NoString THEN version ELSE "latest") \o "/json"
        \o (IF formatVersion # NoNumber
            THEN "/" \o ToString(formatVersion) ELSE "")
        \o (IF target # NoString THEN "/" \o target ELSE "")

buildJsonUrl_NoFormat(crateName, version, target, formatVersion) ==
    "https://docs.rs/crate/" \o crateName \o "/"
        \o (IF version # NoString THEN version ELSE "latest")
        \o (IF target # NoString THEN "/" \o target ELSE "") \o "/json"

\* buildJsonUrl(crateName, version, target, formatVersion)
buildJsonUrl(crateName, version, target, formatVersion) ==
    LET base == "https://docs.rs/crate/" \o crateName
        versioned == base \o "/" \o (IF version # NoString THEN version
                                     ELSE "latest")
        targeted == IF target # NoString THEN versioned \o "/" \o target
                    ELSE versioned
        json == targeted \o "/json"
    IN  IF formatVersion # NoNumber
        THEN json \o "/" \o ToString(formatVersion)
        ELSE json

\* the arguments of a fetchCrateJson call
Request(crateName, version, target, formatVersion) ==
    [crateName |-> crateName, version |-> version, target |-> target,
     formatVersion |-> formatVersion]

\* the arguments of the fetchCrateJson calls of the model
Requests ==
    { Request("tinc", NoString, NoString, NoNumber),
      Request("tinc", "0.1.6", "wasm32-unknown-unknown", 30),
      Request("serde", NoString, "wasm32-unknown-unknown", NoNumber) }

\* the response statuses, response.ok and response.statusText
Statuses == {200, 404, 500}
ok(status) == status >= 200 /\ status <= 299
statusText(status) ==
    CASE status = 200 -> "OK"
      [] status = 404 -> "Not Found"
      [] status = 500 -> "Internal Server Error"
      [] OTHER -> NoString

classify_OkFirst(status) ==
    IF ~ok(status) THEN "NetworkError"
    ELSE IF status = 404 THEN "CrateNotFoundError"
    ELSE "none"

\* lines 89-95: the error a response status is thrown as, if any
classify(status) ==
    IF status = 404 THEN "CrateNotFoundError"
    ELSE IF ~ok(status) THEN "NetworkError"
    ELSE "none"

\* the values of the content-encoding header ("none": no such header)
Encodings == {"zstd", "none"}

\* the bodies a response may carry: whether reading it succeeds, whether it is
\* a sound zstd frame, and the text it holds
Body(read, frame, text) == [read |-> read, frame |-> frame, text |-> text]
Bodies ==
    { Body(TRUE, TRUE, text) :
        text \in {"{\"root\":1}", "{\"root\":2}", "null", "1", "<html>", " ", ""} }
    \cup { Body(TRUE, FALSE, ""), Body(FALSE, TRUE, "") }

\* !responseText || responseText.trim().length === 0
isBlank(text) == text \in {"", " ", "\n", " \n"}

decodeZstd_RewrapsAll(body) ==
    IF ~body.read \/ ~body.frame \/ ~JSONParse(body.text).ok
    THEN [err |-> "DecompressionError", parsed |-> FALSE, data |-> JNull]
    ELSE [err |-> "none", parsed |-> TRUE, data |-> JSONParse(body.text).value]

\* lines 109-138: the zstd path
decodeZstd(body) ==
    IF ~body.read \/ ~body.frame
    THEN [err |-> "DecompressionError", parsed |-> FALSE, data |-> JNull]
    ELSE IF ~JSONParse(body.text).ok
    THEN [err |-> "JSONParseError", parsed |-> FALSE, data |-> JNull]
    ELSE [err |-> "none", parsed |-> TRUE, data |-> JSONParse(body.text).value]

decodeText_RewrapsAll(body) ==
    IF ~body.read \/ isBlank(body.text) \/ ~JSONParse(body.text).ok
    THEN [err |-> "Error", parsed |-> FALSE, data |-> JNull]
    ELSE [err |-> "none", parsed |-> TRUE, data |-> JSONParse(body.text).value]

\* lines 139-160: the plain text path
decodeText(body) ==
    IF ~body.read
    THEN [err |-> "Error", parsed |-> FALSE, data |-> JNull]
    ELSE IF isBlank(body.text) \/ ~JSONParse(body.text).ok
    THEN [err |-> "JSONParseError", parsed |-> FALSE, data |-> JNull]
    ELSE [err |-> "none", parsed |-> TRUE, data |-> JSONParse(body.text).value]

isValid_AnyObject(data) == TypeofObject(data)

isValid_AnyValue(data) == TRUE

\* lines 163-169: the parsed value is a non-null object
isValid(data) == Truthy(data) /\ TypeofObject(data)

rethrown_AbortAsOther(err) ==
    CASE err \in {"JSONParseError", "NetworkError", "CrateNotFoundError",
                  "DecompressionError", "TimeoutError"} -> err
      [] OTHER -> "NetworkError"

\* lines 176-196: the error the catch block throws for the error it caught
rethrown(err) ==
    CASE err = "AbortError" -> "TimeoutError"
      [] err \in {"JSONParseError", "NetworkError", "CrateNotFoundError",
                  "DecompressionError", "TimeoutError"} -> err
      [] OTHER -> "NetworkError"

\* line 109: encoding === "zstd" || encoding === "Zstd"
isZstd(encoding) == encoding \in {"zstd", "Zstd"}

\* lines 109-169: [err, parsed, data] of a response body
decode(encoding, body) ==
    LET read == IF isZstd(encoding) THEN decodeZstd(body)
                ELSE decodeText(body)
    IN  IF read.err # "none" THEN read
        ELSE IF ~isValid(read.data)
        THEN [read EXCEPT !.err = "JSONParseError"]
        ELSE read

writes_BeforeValidation(outcome) == outcome.parsed

\* lines 162-172: cache.set is reached only by a decoded and validated payload
writes(outcome) == outcome.err = "none"

----------------------------------------------------------------------------
(* fetchCrateJson, one action per stretch of code between two awaits *)

\* lines 54-85: the cache lookup, and on a miss the request being sent
FetchStart(c, request) ==
    /\ Ready
    /\ calls[c].pc = "idle" /\ calls[c].timer = "none"
    /\ \E t2 \in Later :
        LET url == buildJsonUrl(request.crateName, request.version,
                                request.target, request.formatVersion)
            got == getWithMetadata(rows, url, now, t2)
            hit == Truthy(got.data)
        IN  /\ rows' = got.rows
            /\ now' = t2
            /\ calls' = [calls EXCEPT ![c] =
                  IF hit THEN NoCall
                  ELSE [NoCall EXCEPT !.pc = "awaitResponse", !.url = url,
                                      !.timer = "armed", !.requests = 1,
                                      !.args = request]]
            /\ last' = [NoLast EXCEPT !.op = "fetchStart", !.key = url,
                           !.isHit = hit, !.data = got.data,
                           !.args = request,
                           !.pre = Lifetimes(getStmt(rows, url)),
                           !.requests = IF hit THEN 0 ELSE 1]
            /\ UNCHANGED <<latest, fetched, db, used>>

\* the fields of the error object thrown: errors.ts, the constructors of
\* CrateNotFoundError, NetworkError, TimeoutError and CacheError
errorInfo(c, err, detail) ==
    CASE err = "CrateNotFoundError" ->
            [crateName |-> calls[c].args.crateName,
             version |-> calls[c].args.version]
      [] err = "NetworkError" ->
            [url |-> calls[c].url, statusCode |-> detail,
             statusText |-> statusText(detail)]
      [] err = "TimeoutError" -> [url |-> calls[c].url, timeoutMs |-> timeout]
      [] err = "DecompressionError" ->
            [url |-> calls[c].url, encoding |-> "zstd"]
      [] err = "CacheError" -> [operation |-> detail]
      [] OTHER -> <<>>

afterThrow_Retry(call) ==
    [call EXCEPT !.pc = "awaitResponse", !.timer = "armed", !.requests = 2]

\* lines 176-196: the catch block throws and the invocation is over; nothing
\* sends the request again
afterThrow(call) == NoCall

\* what a call that ends here reports: cause is the event that ended it, and
\* detail the status code or storage operation the error carries
Ended(c, err, data, written) ==
    [NoLast EXCEPT !.op = "fetchDone", !.key = calls[c].url, !.err = err,
                   !.data = data, !.requests = calls[c].requests,
                   !.writes = calls[c].writes + (IF written THEN 1 ELSE 0),
                   !.args = calls[c].args, !.call = c]

Failed(c, err, cause, detail) ==
    [Ended(c, err, JNull, FALSE) EXCEPT !.cause = cause,
                                        !.info = errorInfo(c, err, detail)]

\* lines 87-95: the response has arrived
FetchResponse(c, status) ==
    /\ Ready
    /\ calls[c].pc = "awaitResponse"
    /\ IF classify(status) # "none"
       THEN /\ calls' = [calls EXCEPT ![c] = afterThrow(calls[c])]
            /\ last' = [Failed(c, rethrown(classify(status)), "status",
                               status) EXCEPT !.status = status]
       ELSE /\ calls' = [calls EXCEPT ![c].pc = "awaitBody",
                                      ![c].timer = "cleared"]
            /\ last' = [NoLast EXCEPT !.op = "response", !.key = calls[c].url,
                           !.status = status, !.call = c]
    /\ UNCHANGED <<rows, now, latest, fetched, db, used>>

\* lines 79-85 and 176-196: the request fails; the timer is left running
FetchReject(c) ==
    /\ Ready
    /\ calls[c].pc = "awaitResponse"
    /\ calls' = [calls EXCEPT
                    ![c] = [afterThrow(calls[c]) EXCEPT !.timer = "armed"]]
    /\ last' = Failed(c, rethrown("TypeError"), "reject", NoNumber)
    /\ UNCHANGED <<rows, now, latest, fetched, db, used>>

abort_EveryRequest(all, c) ==
    [d \in DOMAIN all |->
        IF all[d].pc = "awaitResponse" THEN afterThrow(all[d])
        ELSE IF d = c THEN NoCall ELSE all[d]]

\* lines 73-75: controller.abort() of the controller that invocation c made:
\* it ends the request of c if that is still awaited, and touches no other
abort(all, c) ==
    [all EXCEPT ![c] = IF all[c].pc = "awaitResponse"
                       THEN afterThrow(all[c])
                       ELSE NoCall]

\* line 75: the timer fires and aborts the request, if it is still awaited
TimerFire(c) ==
    /\ Ready
    /\ calls[c].timer = "armed"
    /\ calls' = abort(calls, c)
    /\ last' = IF calls[c].pc = "awaitResponse"
               THEN Failed(c, rethrown("AbortError"), "abort", NoNumber)
               ELSE [NoLast EXCEPT !.op = "timer", !.call = c]
    /\ UNCHANGED <<rows, now, latest, fetched, db, used>>

\* lines 48-53: the caller's own AbortSignal fires while its call is in
\* flight; fetchCrateJsonWithStatus takes no signal and passes only its own
\* controller's signal to fetch, so the call goes on as it was
CallerAbort(c) ==
    /\ Ready
    /\ calls[c].pc \in {"awaitResponse", "awaitBody"}
    /\ last' = [NoLast EXCEPT !.op = "callerAbort", !.key = calls[c].url,
                   !.call = c]
    /\ UNCHANGED <<rows, now, calls, latest, fetched, db, used>>

\* lines 98-175: the body has been read; the content-encoding header read
\* at line 98 is first used here
FetchBody(c, encoding, body) ==
    /\ Ready
    /\ calls[c].pc = "awaitBody"
    /\ LET outcome == decode(encoding, body)
           url == calls[c].url
       IN  IF writes(outcome)
           THEN \E gone \in evictions(rows) :
                  /\ rows' = set(rows, gone, url, outcome.data, cacheTtl, now)
                  /\ fetched' = Written(Dropped(fetched, Evicted(gone)),
                                        url, outcome.data)
                  /\ last' = [Ended(c, IF outcome.err = "none" THEN "none"
                                       ELSE rethrown(outcome.err),
                                    outcome.data, TRUE)
                                EXCEPT !.evicted = Evicted(gone),
                                       !.present = getStmt(rows, url) # {}]
                  /\ calls' = [calls EXCEPT ![c] = NoCall]
           ELSE /\ last' = Failed(c, rethrown(outcome.err),
                                   IF isZstd(encoding) THEN "zstd" ELSE "text",
                                   NoNumber)
                /\ calls' = [calls EXCEPT ![c] = afterThrow(calls[c])]
                /\ UNCHANGED <<rows, fetched>>
    /\ UNCHANGED <<now, latest, db, used>>

\* clearCache()
clearCache ==
    /\ Ready
    /\ rows' = clearStmt(rows)
    /\ last' = [NoLast EXCEPT !.op = "clearCache", !.pre = Lifetimes(rows)]
    /\ fetched' = [url \in {} |-> JNull]
    /\ UNCHANGED <<now, calls, latest, db, used>>

\* getCacheStats()
getCacheStats ==
    /\ Ready
    /\ last' = [NoLast EXCEPT !.op = "getCacheStats",
                   !.totalEntries = countStmt(rows),
                   !.totalSize = totalSize(rows),
                   !.oldestEntry = oldestEntry(rows)]
    /\ UNCHANGED <<rows, now, calls, latest, fetched, db, used>>

\* getCacheEntries(limit, offset)
getCacheEntries(limit, offset) ==
    /\ Ready
    /\ \E order \in Descending(cleanupExpired(rows, now)) :
        LET page == Page(order, limit, offset) IN
        /\ rows' = cleanupExpired(rows, now)
        /\ last' = [NoLast EXCEPT !.op = "getCacheEntries", !.limit = limit,
                       !.offset = offset,
                       !.entries = [i \in 1..Len(page) |-> Entry(page[i])]]
    /\ UNCHANGED <<now, calls, latest, fetched, db, used>>

selectOnly_NoUpperCase(sql) == sql # <<>> /\ StartsWith(Trim(sql), SELECT)

\* line 222: sql && sql.trim().toUpperCase().startsWith("SELECT")
selectOnly(sql) == sql # <<>> /\ StartsWith(ToUpperCase(Trim(sql)), SELECT)

\* queryCacheDb(sql)
queryCacheDb(sql) ==
    /\ Ready
    /\ IF ~selectOnly(sql)
       THEN /\ rows' = rows
            /\ last' = [NoLast EXCEPT !.op = "queryCacheDb", !.sql = sql,
                           !.err = "Error"]
       ELSE LET res == query(rows, sql, now) IN
            /\ rows' = res.rows
            /\ last' = [NoLast EXCEPT !.op = "queryCacheDb", !.sql = sql,
                           !.err = res.err, !.executed = res.executed,
                           !.result = res.result]
    /\ UNCHANGED <<now, calls, latest, fetched, db, used>>

Start == \E c \in Calls, request \in Requests : FetchStart(c, request)
Response == \E c \in Calls, status \in Statuses : FetchResponse(c, status)
Reject == \E c \in Calls : FetchReject(c)
Timeout == \E c \in Calls : TimerFire(c)
Cancel == \E c \in Calls : CallerAbort(c)
ReadBody ==
    \E c \in Calls, encoding \in Encodings, body \in Bodies :
        FetchBody(c, encoding, body)
QueryCache == \E sql \in Statements : queryCacheDb(sql)
CacheEntries == \E page \in Pages : getCacheEntries(page[1], page[2])

FetcherNext ==
    \/ Start
    \/ Response
    \/ Reject
    \/ Timeout
    \/ Cancel
    \/ ReadBody
    \/ clearCache
    \/ getCacheStats
    \/ CacheEntries
    \/ QueryCache
    \/ Tick
    \/ Return

FetcherSpec == Init /\ [][FetcherNext]_vars

----------------------------------------------------------------------------
(* One fetchCrateJson call at a time, over every content-encoding *)

\* the values of the content-encoding header: the two spellings the code
\* tests for, another encoding, and no header
HeaderValues == Encodings \cup {"Zstd", "gzip"}

OneStart == \E request \in Requests : FetchStart(1, request)
OneResponse == \E status \in Statuses : FetchResponse(1, status)
OneBody ==
    \E encoding \in HeaderValues, body \in Bodies : FetchBody(1, encoding, body)

OneCallNext ==
    \/ OneStart
    \/ OneResponse
    \/ OneBody
    \/ Tick
    \/ Return

OneCallSpec == Init /\ [][OneCallNext]_vars

----------------------------------------------------------------------------
(* buildJsonUrl on its own: the keys of two argument tuples *)

\* the argument tuples of the model: each optional argument absent or one of
\* two values
Tuples ==
    { Request(crateName, version, target, formatVersion) :
        crateName \in {"tinc", "serde"},
        version \in {NoString, "latest", "0.1.6"},
        target \in {NoString, "wasm32-unknown-unknown",
                    "x86_64-unknown-linux-gnu"},
        formatVersion \in {NoNumber, 30, 31} }

\* buildJsonUrl is called for a and for b
BuildKeys(a, b) ==
    /\ Ready
    /\ last' = [NoLast EXCEPT !.op = "buildJsonUrl", !.args = <<a, b>>,
                   !.keys = << buildJsonUrl(a.crateName, a.version, a.target,
                                            a.formatVersion),
                               buildJsonUrl(b.crateName, b.version, b.target,
                                            b.formatVersion) >>]
    /\ UNCHANGED <<rows, now, calls, latest, fetched, db, used>>

Build == \E a, b \in Tuples : BuildKeys(a, b)

KeyNext ==
    \/ Build
    \/ Return

KeySpec == Init /\ [][KeyNext]_vars

----------------------------------------------------------------------------
(* The fetcher over a storage engine that may fail *)

\* line 58: the lookup fails in the engine, before or after the sweep;
\* getWithMetadata throws CacheError("get"), and no try of the fetcher
\* encloses the lookup
FetchStartFault(c, request) ==
    /\ Ready
    /\ calls[c].pc = "idle" /\ calls[c].timer = "none"
    /\ rows' \in {rows, cleanupExpired(rows, now)}
    /\ last' = [NoLast EXCEPT !.op = "fetchDone", !.err = "CacheError",
                   !.key = buildJsonUrl(request.crateName, request.version,
                                        request.target, request.formatVersion),
                   !.cause = "storage", !.info = [operation |-> "get"],
                   !.args = request, !.call = c]
    /\ UNCHANGED <<now, calls, latest, fetched, db, used>>

\* line 172: the write fails in the engine, before or after the eviction;
\* set throws CacheError("set") inside the try, and the catch block decides
\* what the caller gets
FetchBodyFault(c, encoding, body) ==
    /\ Ready
    /\ calls[c].pc = "awaitBody"
    /\ writes(decode(encoding, body))
    /\ \E gone \in evictions(rows) \cup {{}} :
          /\ rows' = rows \ gone
          /\ fetched' = Dropped(fetched, Evicted(gone))
    /\ LET err == rethrown("CacheError") IN
       last' = Failed(c, err, "storage",
                      IF err = "CacheError" THEN "set" ELSE NoNumber)
    /\ calls' = [calls EXCEPT ![c] = NoCall]
    /\ UNCHANGED <<now, latest, db, used>>

LookupFault == \E c \in Calls, request \in Requests : FetchStartFault(c, request)
WriteFault ==
    \E c \in Calls, encoding \in Encodings, body \in Bodies :
        FetchBodyFault(c, encoding, body)

FaultNext ==
    \/ FetcherNext
    \/ LookupFault
    \/ WriteFault

FaultSpec == Init /\ [][FaultNext]_vars

----------------------------------------------------------------------------
(* Properties of the store, checked under Spec *)

\* does the statement, trimmed and upper-cased, begin with SELECT
BeginsWithSelect(sql) == StartsWith(ToUpperCase(Trim(sql)), SELECT)

\* C1: the store holds at most one entry per key, and a get of a key whose
\* entry is present and not yet expired is a hit; every hit returns the value
\* of the most recent set of that key.
C1_OneEntryPerKey ==
    /\ \A r1, r2 \in rows : r1.key = r2.key => r1 = r2
    /\ (last.op = "get" /\ \E p \in last.pre : now < p.timestamp + p.ttl)
          => last.isHit
    /\ (last.op = "get" /\ last.isHit)
          => /\ last.key \in DOMAIN latest
             /\ last.data = latest[last.key]

\* a hit on a key that was set, in a store holding another entry too
C1_Witness ==
    /\ last.op = "get" /\ last.isHit
    /\ last.data = JStr("value2")
    /\ Cardinality(rows) = 2

\* C2: immediately after every set the store holds at most maxSize entries.
C2_SizeBound == last.op = "set" => countStmt(rows) <= maxSize

\* a set that evicted an entry and left the store full
C2_Witness ==
    /\ last.op = "set" /\ last.evicted # NoKey
    /\ countStmt(rows) = maxSize

\* C3: a set of a key that is not present, in a store holding maxSize entries,
\* removes exactly one entry, one of smallest timestamp, keeps every other
\* entry as it was and adds the new one.
C3_EvictsOldest ==
    [][ ( /\ last'.op = "set"
          /\ getStmt(rows, last'.key) = {}
          /\ countStmt(rows) = maxSize )
        => \E victim \in rows :
              /\ \A r \in rows : victim.timestamp <= r.timestamp
              /\ \E new \in rows' :
                    /\ new.key = last'.key
                    /\ new.data = JSONStringify(last'.data)
                    /\ rows' = (rows \ {victim}) \cup {new} ]_vars

\* a new key was set in a full store; the evicted entry was older than one
\* that stayed
C3_Witness ==
    /\ last.op = "set" /\ ~last.present /\ last.evicted # NoKey
    /\ countStmt(rows) = maxSize
    /\ \E r \in rows : r.key # last.key /\ r.timestamp > 0

\* C4, as claimed: get returns the entry exactly at the times strictly before
\* timestamp + ttl, and not at timestamp + ttl itself.
C4_LiveBeforeDeadline ==
    last.op = "get"
        => (last.isHit <=> \E p \in last.pre : now < p.timestamp + p.ttl)

\* C4, amended: get returns the entry exactly at the times up to and
\* including timestamp + ttl, and never at a later time.
C4_LiveThroughDeadline ==
    last.op = "get"
        => (last.isHit <=> \E p \in last.pre : now <= p.timestamp + p.ttl)

\* a hit at the instant timestamp + ttl
C4_Witness ==
    /\ last.op = "get" /\ last.isHit
    /\ \E p \in last.pre : now = p.timestamp + p.ttl

\* C9, as claimed: the store's query rejects every statement that does not
\* begin with SELECT, with QueryRejected, and executes nothing for it.
C9_StoreQueryRejects ==
    (last.op = "query" /\ ~BeginsWithSelect(last.sql))
        => (last.err = "QueryRejected" /\ ~last.executed)

\* C11, as claimed: getStats counts live entries only: no entry with
\* timestamp + ttl < now enters totalEntries, totalSize or oldestEntry, and
\* totalEntries is the number of entries listEntries would return at the same
\* instant with no limit.
C11_StatsOverLiveEntries ==
    last.op = "stats"
        => LET live == cleanupExpired(rows, now) IN
           /\ last.totalEntries = countStmt(live)
           /\ last.totalSize = totalSize(live)
           /\ last.oldestEntry \subseteq { r.timestamp : r \in live }
           /\ \A order \in Descending(live) :
                 last.totalEntries = Len(Page(order, 0 - 1, 0))

\* C12: get, listEntries and query first delete every entry with
\* timestamp + ttl < now, and what they return holds no such entry.
C12_NoExpiredExposed ==
    [][ (last'.op \in {"get", "list", "query"})
        => /\ rows' \subseteq cleanupExpired(rows, now)
           /\ (last'.op = "get" /\ last'.isHit)
                 => \E r \in rows :
                       /\ r.key = last'.key
                       /\ ~(r.timestamp + r.ttl < now')
           /\ \A i \in 1..Len(last'.entries) :
                 ~(last'.entries[i].timestamp + last'.entries[i].ttl < now')
           /\ \A r \in last'.result : ~(r.timestamp + r.ttl < now') ]_vars

\* listEntries found an expired entry in the table and returned only the
\* other one
C12_Witness ==
    /\ last.op = "list" /\ Len(last.entries) = 1
    /\ \E p \in last.pre : p.timestamp + p.ttl < now
    /\ last.entries[1].timestamp + last.entries[1].ttl >= now

\* C13: listEntries(limit, offset) leaves only live entries in the table and
\* returns them newest first, without the first offset of them and at most
\* limit of them, each with expiresAt = timestamp + ttl.
C13_ListNewestFirst ==
    last.op = "list"
        => LET e == last.entries
               k == Len(last.entries)
               n == Cardinality(rows)
               out == { r \in rows : \A i \in 1..k : e[i].key # r.key }
           IN  /\ \A r \in rows : r.timestamp + r.ttl >= now
               /\ \A i \in 1..k : \E r \in rows :
                     /\ e[i].key = r.key /\ e[i].timestamp = r.timestamp
                     /\ e[i].ttl = r.ttl
                     /\ e[i].expiresAt = r.timestamp + r.ttl
               /\ \A i, j \in 1..k :
                     i < j => /\ e[i].key # e[j].key
                              /\ e[i].timestamp >= e[j].timestamp
               /\ k <= last.limit
               /\ k = IF n - last.offset < 0 THEN 0
                      ELSE IF n - last.offset < last.limit
                      THEN n - last.offset
                      ELSE last.limit
               /\ k > 0 =>
                     /\ \A r \in out : \/ r.timestamp >= e[1].timestamp
                                        \/ r.timestamp <= e[k].timestamp
                     /\ Cardinality({ r \in out :
                            r.timestamp > e[1].timestamp }) <= last.offset
                     /\ Cardinality({ r \in out :
                            r.timestamp >= e[1].timestamp }) >= last.offset

\* with limit 1 and offset 1 the older of two entries was returned
C13_Witness ==
    /\ last.op = "list" /\ last.limit = 1 /\ last.offset = 1
    /\ Len(last.entries) = 1
    /\ \E r \in rows : r.timestamp > last.entries[1].timestamp

\* C22: a set of a key that is present replaces its entry and does not lose
\* it, also when the eviction step picked that very entry: right after the
\* set the store holds one entry of the key, with the new value, the time of
\* the set and the new ttl, and a get of the key returns the new value.
C22_ReplaceKeepsKey ==
    (last.op = "set" /\ last.present)
        => /\ \E r \in rows :
                 /\ r.key = last.key
                 /\ r.data = JSONStringify(last.data)
                 /\ r.timestamp = now
                 /\ \A q \in rows : q.key = last.key => q = r
           /\ getWithMetadata(rows, last.key, now, now).isHit
           /\ getWithMetadata(rows, last.key, now, now).data = last.data

\* the key set was the oldest entry of a full store and was the one evicted
C22_Witness ==
    /\ last.op = "set" /\ last.present
    /\ last.evicted = last.key
    /\ countStmt(rows) = maxSize

\* C23: delete(key) removes the entry of key if there is one, raises no
\* error if there is none, and leaves every other entry as it was.
C23_DeleteOnlyKey ==
    [][ last'.op = "delete"
        => /\ rows' = { r \in rows : r.key # last'.key }
           /\ last'.err = "none"
           /\ last'.present = (\E r \in rows : r.key = last'.key) ]_vars

\* an entry was deleted and another one stayed
C23_Witness ==
    /\ last.op = "delete" /\ last.present
    /\ rows # {}
    /\ \A r \in rows : r.key # last.key

\* C31, as claimed: a set of a key that is present leaves the set of keys of
\* the store as it was, also when the store is at capacity.
C31_ReplaceKeepsOthers ==
    [][ (last'.op = "set" /\ last'.present)
        => { r.key : r \in rows' } = { r.key : r \in rows } ]_vars

\* C36: after a get that reported a miss the store holds no row of the key.
C36_MissLeavesNoRow ==
    (last.op = "get" /\ ~last.isHit) => getStmt(rows, last.key) = {}

\* a get missed on a key whose row was in the table when it began
C36_Witness ==
    /\ last.op = "get" /\ ~last.isHit
    /\ last.pre # {}
    /\ getStmt(rows, last.key) = {}

----------------------------------------------------------------------------
(* Properties of the fetcher, checked under FetcherSpec *)

\* C5: a fetch whose url has an entry that is still live at the lookup returns
\* that entry's data as a cache hit and sends no request.
C5_LiveEntryIsHit ==
    [][ ( /\ last'.op = "fetchStart"
          /\ \E r \in rows :
                r.key = last'.key /\ now' <= r.timestamp + r.ttl )
        => /\ last'.isHit
           /\ \E r \in rows :
                 r.key = last'.key /\ last'.data = JSONParse(r.data).value
           /\ calls' = calls
           /\ last'.requests = 0 ]_vars

\* a hit while another call is in flight
C5_Witness ==
    /\ last.op = "fetchStart" /\ last.isHit
    /\ \E c \in Calls : calls[c].pc = "awaitResponse"

\* C6: the step in which a fetch call fails writes nothing: the table is as
\* it was, and the call has written nothing before either.
C6_FailureWritesNothing ==
    [][ (last'.op = "fetchDone" /\ last'.err # "none")
        => (rows' = rows /\ last'.writes = 0 /\ fetched' = fetched) ]_vars

\* a call failed on a payload that parses but is no object, with an entry
\* of an earlier call in the table
C6_Witness ==
    /\ last.op = "fetchDone" /\ last.err = "JSONParseError"
    /\ last.requests = 1
    /\ rows # {}

\* C7: a fetch that missed and succeeds has sent one request and writes the
\* cache once, in its last step: the row of its url, holding the validated
\* payload, the time of the write and the configured ttl; and nothing else
\* ever adds a row to the table.
C7_OneWriteOnSuccess ==
    [][ /\ (last'.op = "fetchDone" /\ last'.err = "none")
            => /\ last'.requests = 1 /\ last'.writes = 1
               /\ last'.data.type = "object"
               /\ Row(last'.key, JSONStringify(last'.data), now', cacheTtl)
                     \in rows'
               /\ \A r \in rows' \ rows : r.key = last'.key
               /\ \A r1, r2 \in rows' : r1.key = r2.key => r1 = r2
        /\ (rows' \ rows # {})
            => (last'.op = "fetchDone" /\ last'.err = "none") ]_vars

\* a successful download written into a full table
C7_Witness ==
    /\ last.op = "fetchDone" /\ last.err = "none"
    /\ last.writes = 1 /\ last.evicted # NoKey
    /\ countStmt(rows) = maxSize

\* C8: a cache hit for a url happens only if a download of that same url
\* succeeded and its entry was neither cleared nor evicted since and is not
\* expired; the hit returns the payload of the latest such download.
C8_HitOnlyAfterFetch ==
    (last.op = "fetchStart" /\ last.isHit)
        => /\ last.key \in DOMAIN fetched
           /\ last.data = fetched[last.key]
           /\ \E p \in last.pre : now <= p.timestamp + p.ttl

\* a hit on one url after downloads of two urls
C8_Witness ==
    /\ last.op = "fetchStart" /\ last.isHit
    /\ last.data = JObj("\"root\":2")
    /\ \E url \in DOMAIN fetched : url # last.key /\ fetched[url] # last.data

\* C10: queryCacheDb rejects a statement that does not begin with SELECT
\* and leaves the table as it is, expired rows included; any other statement
\* goes to the store's query, which sweeps and runs it.
C10_FetcherQueryGate ==
    [][ last'.op = "queryCacheDb"
        => IF ~BeginsWithSelect(last'.sql)
           THEN rows' = rows /\ last'.err = "Error" /\ ~last'.executed
           ELSE /\ rows' = cleanupExpired(rows, now)
                /\ last'.err = "none" /\ last'.executed ]_vars

\* a DELETE was rejected while an expired row was still in the table
C10_Witness ==
    /\ last.op = "queryCacheDb" /\ last.err = "Error"
    /\ StartsWith(ToUpperCase(Trim(last.sql)), DELETE)
    /\ \E r \in rows : r.timestamp + r.ttl < now

\* C14: on a miss, a 404 response fails the fetch with CrateNotFoundError
\* naming the crate and the version asked for, every other status outside
\* 200..299 fails it with NetworkError carrying the status code and text, and
\* only a response with a successful status goes on to the reading of a body.
C14_StatusClassified ==
    /\ (last.op = "fetchDone" /\ last.cause = "status")
          => /\ last.requests = 1 /\ last.writes = 0
             /\ calls[last.call].pc = "idle"
             /\ IF last.status = 404
                THEN /\ last.err = "CrateNotFoundError"
                     /\ last.info = [crateName |-> last.args.crateName,
                                     version |-> last.args.version]
                ELSE /\ last.err = "NetworkError"
                     /\ last.info.statusCode = last.status
                     /\ last.info.statusText = statusText(last.status)
    /\ last.op = "response"
          => (last.status >= 200 /\ last.status <= 299)
    /\ \A c \in Calls :
          calls[c].pc = "awaitBody" => calls[c].requests = 1

\* version 0.1.6 of tinc was not found
C14_Witness ==
    /\ last.op = "fetchDone" /\ last.status = 404
    /\ last.err = "CrateNotFoundError"
    /\ last.info = [crateName |-> "tinc", version |-> "0.1.6"]

\* C15: when the timer fires while the response is awaited, the request is
\* aborted and the fetch fails with TimeoutError carrying the url and the
\* configured timeout, and with no other error.
C15_TimerAborts ==
    (last.op = "fetchDone" /\ last.cause = "abort")
        => /\ last.err = "TimeoutError"
           /\ last.info = [url |-> last.key, timeoutMs |-> timeout]
           /\ calls[last.call].pc = "idle"
           /\ last.writes = 0

\* one call timed out while the other was reading its body
C15_Witness ==
    /\ last.op = "fetchDone" /\ last.cause = "abort"
    /\ last.err = "TimeoutError"
    /\ \E c \in Calls : calls[c].pc = "awaitBody"

\* C16, as claimed: the timer of a call stays armed for as long as the call
\* is in flight, be it awaiting the response or reading the body, so that it
\* can end the call.
C16_TimerArmedUntilDone ==
    \A c \in Calls :
        calls[c].pc \in {"awaitResponse", "awaitBody"}
            => calls[c].timer = "armed"

\* C17, as claimed: when the caller's own signal fires while its call is in
\* flight, the call is aborted.
C17_CallerSignalAborts ==
    last.op = "callerAbort" => calls[last.call].pc = "idle"

\* the canonical key of the arguments a, put together as the url scheme of
\* docs.rs says
CanonicalKey(a) ==
    "https://docs.rs/crate/" \o a.crateName \o "/"
        \o (IF a.version # NoString THEN a.version ELSE "latest")
        \o (IF a.target # NoString THEN "/" \o a.target ELSE "")
        \o "/json"
        \o (IF a.formatVersion # NoNumber
            THEN "/" \o ToString(a.formatVersion) ELSE "")

\* C19: the key a fetch looks up is the canonical key of its arguments; on a
\* miss the request goes to that same string, a successful download is
\* written under it, and the table holds entries under no other kind of key.
C19_CanonicalKey ==
    /\ last.op = "fetchStart"
          => /\ last.key = CanonicalKey(last.args)
             /\ ~last.isHit
                   => \E c \in Calls :
                         /\ calls[c].pc = "awaitResponse"
                         /\ calls[c].args = last.args
                         /\ calls[c].url = CanonicalKey(last.args)
    /\ \A c \in Calls :
          calls[c].pc # "idle" => calls[c].url = CanonicalKey(calls[c].args)
    /\ (last.op = "fetchDone" /\ last.err = "none")
          => /\ last.key = CanonicalKey(last.args)
             /\ \E r \in rows :
                   /\ r.key = CanonicalKey(last.args)
                   /\ r.data = JSONStringify(last.data)
                   /\ r.timestamp = now
    /\ \A r \in rows : \E request \in Requests : r.key = CanonicalKey(request)

\* a download for version 0.1.6, a target and format version 30 was written
\* under its key
C19_Witness ==
    /\ last.op = "fetchDone" /\ last.err = "none"
    /\ last.args = Request("tinc", "0.1.6", "wasm32-unknown-unknown", 30)
    /\ \E r \in rows :
          r.key = "https://docs.rs/crate/tinc/0.1.6/wasm32-unknown-unknown/json/30"

\* C24: clearCache removes every entry, so that no key is found afterwards,
\* and a fetch that finds no entry of its key reports a miss and sends a
\* request.
C24_ClearRemovesAll ==
    /\ last.op = "clearCache"
          => /\ rows = {}
             /\ \A request \in Requests, t \in Later :
                   ~getWithMetadata(rows, CanonicalKey(request), now, t).isHit
    /\ (last.op = "fetchStart" /\ last.pre = {})
          => /\ ~last.isHit
             /\ last.requests = 1
             /\ \E c \in Calls : /\ calls[c].pc = "awaitResponse"
                                  /\ calls[c].url = last.key

\* a cache holding entries was cleared while a call was in flight
C24_Witness ==
    /\ last.op = "clearCache" /\ last.pre # {}
    /\ rows = {}
    /\ \E c \in Calls : calls[c].pc = "awaitBody"

\* C25: a fetch invocation sends at most one request, and one that failed is
\* over: its error is with the caller and no request of it is in flight.
C25_NoRetry ==
    /\ \A c \in Calls : calls[c].requests <= 1
    /\ last.op = "fetchDone"
          => /\ last.requests <= 1
             /\ last.err # "none"
                   => /\ last.requests = 1
                      /\ calls[last.call].pc = "idle"

\* a request was rejected and the call ended with that one request
C25_Witness ==
    /\ last.op = "fetchDone" /\ last.cause = "reject"
    /\ last.err = "NetworkError"
    /\ last.requests = 1

\* C29: a fetch that finds the entry of its key past timestamp + ttl reports
\* a miss, removes the entry and sends a request; a download that succeeds
\* is stored under the key with the time of the write, as the one entry of
\* that key.
C29_RefetchAfterTtl ==
    /\ ( /\ last.op = "fetchStart" /\ last.pre # {}
          /\ \A p \in last.pre : now > p.timestamp + p.ttl )
          => /\ ~last.isHit
             /\ last.requests = 1
             /\ \A r \in rows : r.key # last.key
             /\ \E c \in Calls : /\ calls[c].pc = "awaitResponse"
                                  /\ calls[c].url = last.key
    /\ (last.op = "fetchDone" /\ last.err = "none")
          => \E r \in rows :
                /\ r.key = last.key /\ r.timestamp = now /\ r.ttl = cacheTtl
                /\ \A q \in rows : q.key = last.key => q = r

\* a fetch found its entry expired at the per-key check, one tick after the
\* sweep had still kept it
C29_Witness ==
    /\ last.op = "fetchStart" /\ ~last.isHit
    /\ \E p \in last.pre : now = p.timestamp + p.ttl + 1

----------------------------------------------------------------------------
(* Properties of the decoding of a body, checked under OneCallSpec *)

\* C32: the count, the eviction and the insert of a set are one step of the
\* fetcher, so whatever the interleaving of its calls the store never holds
\* more than maxSize entries.
C32_CountWithinMaxSize == countStmt(rows) <= db.maxSize

\* a call wrote its payload into a full store, evicting an entry, while
\* another call was in flight
C32_Witness ==
    /\ last.op = "fetchDone" /\ last.writes = 1
    /\ last.evicted # NoKey
    /\ countStmt(rows) = db.maxSize
    /\ \E c \in Calls : calls[c].pc \in {"awaitResponse", "awaitBody"}

\* C33: calls for one url that are in flight together have each sent their
\* own request, and each writes its payload when it succeeds: after a write
\* the store holds one entry of the url, and it carries that write's payload.
C33_LastWriteWins ==
    /\ \A c \in Calls :
          calls[c].pc \in {"awaitResponse", "awaitBody"}
              => calls[c].requests = 1
    /\ (last.op = "fetchDone" /\ last.err = "none")
          => /\ last.requests = 1 /\ last.writes = 1
             /\ getStmt(rows, last.key)
                  = { Row(last.key, JSONStringify(last.data), now, cacheTtl) }
             /\ fetched[last.key] = last.data

\* a call that missed wrote its payload over the entry that another call for
\* the same url had written while both were in flight
C33_Witness ==
    /\ last.op = "fetchDone" /\ last.err = "none"
    /\ last.present
    /\ last.requests = 1 /\ last.writes = 1
    /\ \E r \in rows : r.key = last.key /\ r.data = JSONStringify(last.data)

\* C38: the timer of a call that is already over (its request was rejected,
\* which leaves the timer running) fires without effect: the table and the
\* payloads are as they were, no error is raised, and every other call
\* stands where it stood.
C38_StaleTimerHarmless ==
    [][ last'.op = "timer"
        => /\ rows' = rows /\ fetched' = fetched /\ now' = now
           /\ last'.err = "none" /\ last'.writes = 0
           /\ calls[last'.call].pc = "idle"
           /\ \A d \in Calls \ {last'.call} : calls'[d] = calls[d] ]_vars

\* the timer of a finished call fired while another call was awaiting its
\* response and the table held an entry
C38_Witness ==
    /\ last.op = "timer"
    /\ calls[last.call].timer = "none"
    /\ \E d \in Calls \ {last.call} : calls[d].pc = "awaitResponse"
    /\ rows # {}

\* C34: in the store of a fetcher, whose entries all carry cacheTtl, the
\* eviction step of a set removes no live entry while an expired entry is
\* still stored: if some row is expired, every row the step may pick is.
C34_EvictsExpiredFirst ==
    (\E r \in rows : isExpired(r, now))
        => \A gone \in evictions(rows) : \A r \in gone : isExpired(r, now)

\* a full store holds an expired and a live entry while a call is about to
\* write its payload
C34_Witness ==
    /\ atCapacity(rows, countStmt(rows))
    /\ \E r \in rows : isExpired(r, now)
    /\ \E r \in rows : ~isExpired(r, now)
    /\ \E c \in Calls : calls[c].pc = "awaitBody"
    /\ \A r \in rows : r.ttl = cacheTtl

\* C26: on the plain text path a body that is empty or blank, one that is no
\* JSON, and one that parses to null or to a number each fail the fetch with
\* JSONParseError, and the table is left as it was.
C26_TextPathRejects ==
    [][ \A encoding \in HeaderValues, body \in Bodies :
          ( /\ FetchBody(1, encoding, body)
            /\ encoding \notin {"zstd", "Zstd"}
            /\ body.read
            /\ body.text \in {"", " ", "<html>", "null", "1"} )
          => /\ last'.op = "fetchDone"
             /\ last'.err = "JSONParseError"
             /\ last'.writes = 0
             /\ rows' = rows ]_vars

\* a body on the text path failed to parse while the table held an entry
C26_Witness ==
    /\ last.op = "fetchDone" /\ last.cause = "text"
    /\ last.err = "JSONParseError"
    /\ rows # {}

\* C35: every value a fetch writes to the cache is a non-null object, and the
\* hit test of the fetcher, the truthiness of the data returned, agrees with
\* the isHit flag of getWithMetadata: fromCache is true exactly on a hit.
C35_HitTestAgrees ==
    [][ /\ \A r \in rows' :
              /\ JSONParse(r.data).ok
              /\ JSONParse(r.data).value.type = "object"
        /\ last'.op = "fetchStart"
              => /\ last'.isHit
                      = getWithMetadata(rows, last'.key, now, now').isHit
                 /\ last'.isHit = (last'.requests = 0) ]_vars

\* a lookup hit the entry an earlier call had written
C35_Witness ==
    /\ last.op = "fetchStart" /\ last.isHit
    /\ last.requests = 0
    /\ \E r \in rows : r.key = last.key /\ Truthy(JSONParse(r.data).value)

\* C37: a fetch that hits the cache writes nothing: the entry it hit and
\* every other entry that was live are as they were, data, timestamp and ttl;
\* the only rows that go are expired ones, and no request is sent.
C37_HitWritesNothing ==
    [][ (last'.op = "fetchStart" /\ last'.isHit)
        => /\ rows' \subseteq rows
           /\ \A r \in rows : ~isExpired(r, now) => r \in rows'
           /\ \E r \in rows' : r.key = last'.key
           /\ fetched' = fetched
           /\ calls' = calls ]_vars

\* a hit, some time after the entry was written, with another entry stored
C37_Witness ==
    /\ last.op = "fetchStart" /\ last.isHit
    /\ \E r \in rows : r.key = last.key /\ r.timestamp < now
    /\ \E r \in rows : r.key # last.key

\* C27: under content-encoding zstd a body that cannot be read or
\* decompressed fails the fetch with DecompressionError naming zstd, and one
\* that decompresses to text that is no JSON fails it with JSONParseError;
\* under any other encoding, or none, the body is read as text and no
\* DecompressionError arises.
C27_ZstdPath ==
    [][ \A encoding \in HeaderValues, body \in Bodies :
          FetchBody(1, encoding, body)
          => IF encoding \in {"zstd", "Zstd"}
             THEN IF ~body.read \/ ~body.frame
                  THEN /\ last'.err = "DecompressionError"
                       /\ last'.info.encoding = "zstd"
                  ELSE /\ last'.err # "DecompressionError"
                       /\ body.text \in {"", " ", "<html>"}
                             => last'.err = "JSONParseError"
                       /\ body.text \in {"{\"root\":1}", "{\"root\":2}"}
                             => last'.err = "none"
             ELSE /\ last'.err # "DecompressionError"
                  /\ ~body.read => last'.err = "NetworkError"
                  /\ (body.read /\ body.text \in {"", " ", "<html>"})
                        => last'.err = "JSONParseError"
                  /\ ( /\ body.read
                       /\ body.text \in {"{\"root\":1}", "{\"root\":2}"} )
                        => last'.err = "none" ]_vars

\* a zstd body decompressed and then failed to parse
C27_Witness ==
    /\ last.op = "fetchDone" /\ last.cause = "zstd"
    /\ last.err = "JSONParseError"

----------------------------------------------------------------------------
(* Properties of buildJsonUrl, checked under KeySpec *)

\* the tuples a and b differ in the optional argument named, and in no other
DiffersOnlyIn(a, b, field) ==
    /\ a[field] # b[field]
    /\ \A other \in {"crateName", "version", "target", "formatVersion"} :
          other # field => a[other] = b[other]

\* C20, as claimed: the same tuple gives the same key, and two tuples that
\* differ in exactly one of version, target and formatVersion, present
\* against absent or in two values, give different keys.
C20_KeysSeparate ==
    last.op = "buildJsonUrl"
        => /\ last.args[1] = last.args[2] => last.keys[1] = last.keys[2]
           /\ \A field \in {"version", "target", "formatVersion"} :
                 DiffersOnlyIn(last.args[1], last.args[2], field)
                     => last.keys[1] # last.keys[2]

\* C20, amended: the same tuple gives the same key, and two tuples that
\* differ in exactly one of version, target and formatVersion give different
\* keys, except that an absent version and the version "latest" give the
\* same key.
C20_KeysSeparateButLatest ==
    last.op = "buildJsonUrl"
        => /\ last.args[1] = last.args[2] => last.keys[1] = last.keys[2]
           /\ \A field \in {"version", "target", "formatVersion"} :
                 DiffersOnlyIn(last.args[1], last.args[2], field)
                     => IF /\ field = "version"
                           /\ {last.args[1].version, last.args[2].version}
                                 = {NoString, "latest"}
                        THEN last.keys[1] = last.keys[2]
                        ELSE last.keys[1] # last.keys[2]

\* two tuples that differ in the version only, absent against "latest", and
\* have one key
C20_Witness ==
    /\ last.op = "buildJsonUrl"
    /\ DiffersOnlyIn(last.args[1], last.args[2], "version")
    /\ last.args[1].version = NoString /\ last.args[2].version = "latest"
    /\ last.args[1].target # NoString
    /\ last.keys[1] = last.keys[2]

----------------------------------------------------------------------------
(* Properties of the fetcher over a failing storage engine, checked under
   FaultSpec *)

\* C18, as claimed: a storage failure in the lookup or in the write of a
\* fetch reaches the caller as a CacheError tagged get or set, and as no
\* other error.
C18_StorageFailureIsCacheError ==
    (last.op = "fetchDone" /\ last.cause = "storage")
        => /\ last.err = "CacheError"
           /\ last.info.operation \in {"get", "set"}

----------------------------------------------------------------------------
(* Properties of the store with use times, checked under UseSpec *)

\* C28, as claimed: the entry that the set of a new key evicts is a least
\* recently used one: no entry of the store was last set or read before the
\* victim was.  Stated for stores whose entries were written at different
\* times, so that the choice among equal timestamps plays no part.
C28_EvictsLeastRecentlyUsed ==
    [][ ( /\ last'.op = "set"
          /\ last'.evicted # NoKey
          /\ \A r \in rows : r.key # last'.key
          /\ \A r1, r2 \in rows : r1.key # r2.key => r1.timestamp # r2.timestamp )
        => \A r \in rows : used[last'.evicted] <= used[r.key] ]_vars

----------------------------------------------------------------------------
(* Properties of a store closed and created again, checked under
   PersistSpec *)

\* C21: closing a file-backed store and creating a new instance on its path
\* leaves every entry as it was, and a get through the new instance of an
\* entry that is still live returns the value that was stored.
C21_ReopenPreserves ==
    [][ /\ (last'.op \in {"close", "createCache"} /\ db.path # ":memory:")
            => rows' = rows
        /\ \A r \in rows :
              ( /\ last'.op = "get" /\ r.key = last'.key
                /\ now' <= r.timestamp + r.ttl )
              => /\ last'.isHit
                 /\ last'.data = JSONParse(r.data).value
                 /\ last'.data = latest[r.key] ]_vars

\* a hit through the second instance on an entry that the first one stored
C21_Witness ==
    /\ last.op = "get" /\ last.isHit
    /\ db.instance = 2 /\ ~db.wrote /\ db.path # ":memory:"

\* C30, as claimed: immediately after a set the store holds at most the
\* maxSize of the instance that set, also when it held more before.
C30_OvershootIsTransient ==
    last.op = "set" => countStmt(rows) <= db.maxSize

====
